---------------------------- MODULE Spec2Model ----------------------------
(***************************************************************************)
(* A model of Recon.py (PassiveReconPro): the URL aggregator               *)
(* extract_dirs_files_params, the sensitivity matcher is_sensitive_path,   *)
(* the categorizer categorize_file, the wordlist store                     *)
(* read_existing_set / write_updated_list and the driver                   *)
(* run_passive_recon.                                                      *)
(*                                                                         *)
(* A Python str is a sequence of one-character strings, so that strip,     *)
(* split, join, endswith, lower, sorted and the regular expressions are    *)
(* computed character by character as the interpreter computes them.       *)
(***************************************************************************)
EXTENDS Integers, Sequences, FiniteSets, TLC

VARIABLES
    input,              \* the input file: [exists, lines]
    pc,                 \* position of run_passive_recon
    run,                \* number of the current invocation of run_passive_recon
    urls,               \* run_passive_recon: urls
    idx,                \* extract_dirs_files_params: index of the next url
    directories,        \* extract_dirs_files_params: directories
    files,              \* extract_dirs_files_params: files
    parameters,         \* extract_dirs_files_params: parameters
    domains,            \* extract_dirs_files_params: domains
    categorized_files,  \* extract_dirs_files_params: categorized_files, in insertion order
    cms_hits,           \* extract_dirs_files_params: cms_hits
    saveIdx,            \* save_all_wordlists: index of the next category
    outDir,             \* whether the directory output/ exists
    fs,                 \* the wordlist files: name -> [exists, data]
    submitted,          \* history: the candidates the last url handed to is_sensitive_path
    lastUrl,            \* history: the last url processed (stripped)
    fsAtStart,          \* history: fs and outDir when the current invocation started
    fsAfterFirst,       \* history: fs when the first invocation finished
    passed,             \* history: every item passed to write_updated_list so far
    calls,              \* history: number of write_updated_list calls so far
    hist,               \* history of the store: the last call and the call before
    wpc,                \* two interleaved writers: position of each
    wItems,             \* two interleaved writers: new_items of each
    wExisting,          \* two interleaved writers: existing_items of each
    wlog,               \* history: the order of the writers' reads and writes
    facts               \* Contribution tabulated over the urls of the model

runVars == <<input, pc, run, urls, idx, directories, files, parameters, domains,
             categorized_files, cms_hits, saveIdx, outDir, submitted, lastUrl,
             fsAtStart, fsAfterFirst>>
storeVars == <<passed, calls, hist>>
writerVars == <<wpc, wItems, wExisting, wlog>>
vars == <<runVars, fs, storeVars, writerVars, facts>>

(***************************************************************************)
(* Bounds of the model.                                                    *)
(***************************************************************************)
MaxUrls == 2
MaxCalls == 2

(***************************************************************************)
(* Characters and strings.                                                 *)
(***************************************************************************)
\* The characters of the model in code-point order (Python compares str by code point).
CodeOrder ==
    << "\n", " ", "#", "&", "+", "-", ".", "/",
       "0", "1", "2", "3", "4", "5", "6", "7", "8", "9", ":", ";", "=", "?",
       "A", "B", "C", "D", "E", "F", "G", "H", "I", "J", "K", "L", "M",
       "N", "O", "P", "Q", "R", "S", "T", "U", "V", "W", "X", "Y", "Z", "_",
       "a", "b", "c", "d", "e", "f", "g", "h", "i", "j", "k", "l", "m",
       "n", "o", "p", "q", "r", "s", "t", "u", "v", "w", "x", "y", "z" >>

CharSet == {CodeOrder[i] : i \in 1..Len(CodeOrder)}

Ord == [c \in CharSet |-> CHOOSE i \in 1..Len(CodeOrder) : CodeOrder[i] = c]

UpperLetters ==
    << "A", "B", "C", "D", "E", "F", "G", "H", "I", "J", "K", "L", "M",
       "N", "O", "P", "Q", "R", "S", "T", "U", "V", "W", "X", "Y", "Z" >>
LowerLetters ==
    << "a", "b", "c", "d", "e", "f", "g", "h", "i", "j", "k", "l", "m",
       "n", "o", "p", "q", "r", "s", "t", "u", "v", "w", "x", "y", "z" >>

LowerChar == [c \in CharSet |->
    IF \E i \in 1..Len(UpperLetters) : UpperLetters[i] = c
    THEN LowerLetters[CHOOSE i \in 1..Len(UpperLetters) : UpperLetters[i] = c]
    ELSE c]

\* str.lower()
Lower(s) == [i \in 1..Len(s) |-> LowerChar[s[i]]]

\* The characters str.strip() removes.
IsSpace(c) == c \in {" ", "\n", "\t", "\r", "\f"}

\* a < b on str
StrLess(a, b) ==
    \E k \in 1..Len(b) :
        /\ \A j \in 1..(k - 1) : j <= Len(a) /\ a[j] = b[j]
        /\ \/ k = Len(a) + 1
           \/ k <= Len(a) /\ Ord[a[k]] < Ord[b[k]]

\* s[i:] and s[:i] with Python's 0-based bounds turned into 1-based SubSeq
From(s, i) == SubSeq(s, i, Len(s))
UpTo(s, i) == SubSeq(s, 1, i)

\* s.startswith(p) at position i (1-based): s[i:i+len(p)] == p
HasAt(s, i, p) ==
    /\ i >= 1
    /\ i + Len(p) - 1 <= Len(s)
    /\ \A j \in 1..Len(p) : s[i + j - 1] = p[j]

EndsWith(s, p) == Len(p) <= Len(s) /\ HasAt(s, Len(s) - Len(p) + 1, p)

\* c in s
Contains(s, c) == \E i \in 1..Len(s) : s[i] = c
\* sub in s
ContainsStr(s, sub) == \E i \in 1..(Len(s) + 1) : HasAt(s, i, sub)

\* s.find(c) as a 1-based index, 0 when absent
Find(s, c) == IF Contains(s, c) THEN CHOOSE i \in 1..Len(s) : s[i] = c /\ \A j \in 1..(i - 1) : s[j] # c
              ELSE 0

\* str.strip(): leading and trailing whitespace removed
Strip(s) ==
    IF \A i \in 1..Len(s) : IsSpace(s[i]) THEN <<>>
    ELSE LET first == CHOOSE i \in 1..Len(s) : ~IsSpace(s[i]) /\ \A j \in 1..(i - 1) : IsSpace(s[j])
             last == CHOOSE i \in 1..Len(s) : ~IsSpace(s[i]) /\ \A j \in (i + 1)..Len(s) : IsSpace(s[j])
         IN  SubSeq(s, first, last)

\* str.strip("/")
StripSlashes(s) ==
    IF \A i \in 1..Len(s) : s[i] = "/" THEN <<>>
    ELSE LET first == CHOOSE i \in 1..Len(s) : s[i] # "/" /\ \A j \in 1..(i - 1) : s[j] = "/"
             last == CHOOSE i \in 1..Len(s) : s[i] # "/" /\ \A j \in (i + 1)..Len(s) : s[j] = "/"
         IN  SubSeq(s, first, last)

\* s.split(c): always at least one piece, empty pieces kept
RECURSIVE Split(_, _)
Split(s, c) ==
    IF ~Contains(s, c) THEN <<s>>
    ELSE <<UpTo(s, Find(s, c) - 1)>> \o Split(From(s, Find(s, c) + 1), c)

\* sep.join(parts)
RECURSIVE Join(_, _)
Join(parts, sep) ==
    IF Len(parts) = 0 THEN <<>>
    ELSE IF Len(parts) = 1 THEN parts[1]
    ELSE parts[1] \o sep \o Join(Tail(parts), sep)

\* sorted(S) for a set of str
RECURSIVE Sorted(_)
Sorted(S) ==
    IF S = {} THEN <<>>
    ELSE LET m == CHOOSE x \in S : \A y \in S \ {x} : StrLess(x, y)
         IN  <<m>> \o Sorted(S \ {m})

Range(q) == {q[i] : i \in 1..Len(q)}

(***************************************************************************)
(* The wordlist store.                                                     *)
(***************************************************************************)
NoFile == [exists |-> FALSE, data |-> <<>>]
FileOf(data) == [exists |-> TRUE, data |-> data]

\* The lines "for line in f" yields, without their line terminator.
RECURSIVE FileLines(_)
FileLines(data) ==
    IF Len(data) = 0 THEN <<>>
    ELSE IF ~Contains(data, "\n") THEN <<data>>
    ELSE <<UpTo(data, Find(data, "\n") - 1)>> \o FileLines(From(data, Find(data, "\n") + 1))

\* read_existing_set(file_path)
read_existing_set(file) ==
    IF ~file.exists THEN {}
    ELSE {Strip(l) : l \in Range(FileLines(file.data))} \ {<<>>}

\* write_updated_list(filepath, new_items): the file it leaves, given what it read
WriteCombined(existing_items, new_items) ==
    FileOf(Join(Sorted(existing_items \cup new_items), <<"\n">>))

write_updated_list(file, new_items) ==
    WriteCombined(read_existing_set(file), new_items)

(***************************************************************************)
(* The tables of Recon.py.                                                 *)
(***************************************************************************)
\* extension_categories, in declaration order
extension_categories ==
    << [category |-> "js", extensions |-> << <<".", "j", "s">> >>],
       [category |-> "json", extensions |-> << <<".", "j", "s", "o", "n">> >>],
       [category |-> "php", extensions |-> << <<".", "p", "h", "p">> >>],
       [category |-> "asp", extensions |-> << <<".", "a", "s", "p">>, <<".", "a", "s", "p", "x">> >>],
       [category |-> "jsp", extensions |-> << <<".", "j", "s", "p">> >>],
       [category |-> "html", extensions |-> << <<".", "h", "t", "m", "l">>, <<".", "h", "t", "m">> >>],
       [category |-> "txt", extensions |-> << <<".", "t", "x", "t">>, <<".", "l", "o", "g">> >>],
       [category |-> "xml", extensions |-> << <<".", "x", "m", "l">> >>],
       [category |-> "sql", extensions |-> << <<".", "s", "q", "l">> >>],
       [category |-> "config", extensions |-> << <<".", "c", "o", "n", "f">>, <<".", "c", "o", "n", "f", "i", "g">>, <<".", "i", "n", "i">>, <<".", "e", "n", "v">> >>],
       [category |-> "zip", extensions |-> << <<".", "z", "i", "p">>, <<".", "t", "a", "r">>, <<".", "g", "z">>, <<".", "r", "a", "r">>, <<".", "7", "z">> >>],
       [category |-> "bak", extensions |-> << <<".", "b", "a", "k">>, <<".", "o", "l", "d">>, <<".", "b", "a", "c", "k", "u", "p">> >>],
       [category |-> "css", extensions |-> << <<".", "c", "s", "s">> >>] >>

\* sensitive_path_patterns: each pattern is (?i) <pre> (<words>) <tail>, where <pre> is
\* "/?" (opt), "/" (slash) or "/?.+\." (any_dot) and <tail> is a choice among literal
\* tails, "\..+" (dotplus) and "$" (end).
sensitive_path_patterns ==
    <<
       \* (?i)/?(admin|administrator|wp-admin|cpanel|dashboard|panel|console)(/|$)
       [pre |-> "opt",
        words |-> {<<"a", "d", "m", "i", "n">>,
                   <<"a", "d", "m", "i", "n", "i", "s", "t", "r", "a", "t", "o", "r">>,
                   <<"w", "p", "-", "a", "d", "m", "i", "n">>,
                   <<"c", "p", "a", "n", "e", "l">>,
                   <<"d", "a", "s", "h", "b", "o", "a", "r", "d">>,
                   <<"p", "a", "n", "e", "l">>,
                   <<"c", "o", "n", "s", "o", "l", "e">>},
        tails |-> {<<"/">>},
        dotplus |-> FALSE, end |-> TRUE],
       \* (?i)/(login|signin|auth|authentication)(/|\.php|\.asp|\.jsp|\.html|$)
       [pre |-> "slash",
        words |-> {<<"l", "o", "g", "i", "n">>,
                   <<"s", "i", "g", "n", "i", "n">>,
                   <<"a", "u", "t", "h">>,
                   <<"a", "u", "t", "h", "e", "n", "t", "i", "c", "a", "t", "i", "o", "n">>},
        tails |-> {<<"/">>, <<".", "p", "h", "p">>, <<".", "a", "s", "p">>, <<".", "j", "s", "p">>, <<".", "h", "t", "m", "l">>},
        dotplus |-> FALSE, end |-> TRUE],
       \* (?i)/?(config|configuration|settings|setup|install|system_setup)(\..+|/|$)
       [pre |-> "opt",
        words |-> {<<"c", "o", "n", "f", "i", "g">>,
                   <<"c", "o", "n", "f", "i", "g", "u", "r", "a", "t", "i", "o", "n">>,
                   <<"s", "e", "t", "t", "i", "n", "g", "s">>,
                   <<"s", "e", "t", "u", "p">>,
                   <<"i", "n", "s", "t", "a", "l", "l">>,
                   <<"s", "y", "s", "t", "e", "m", "_", "s", "e", "t", "u", "p">>},
        tails |-> {<<"/">>},
        dotplus |-> TRUE, end |-> TRUE],
       \* (?i)/?(secret|private|internal|hidden|secure|vault)(/|$)
       [pre |-> "opt",
        words |-> {<<"s", "e", "c", "r", "e", "t">>,
                   <<"p", "r", "i", "v", "a", "t", "e">>,
                   <<"i", "n", "t", "e", "r", "n", "a", "l">>,
                   <<"h", "i", "d", "d", "e", "n">>,
                   <<"s", "e", "c", "u", "r", "e">>,
                   <<"v", "a", "u", "l", "t">>},
        tails |-> {<<"/">>},
        dotplus |-> FALSE, end |-> TRUE],
       \* (?i)/?(backup|bak|bkp|old|archive)(\..+|/|$)
       [pre |-> "opt",
        words |-> {<<"b", "a", "c", "k", "u", "p">>,
                   <<"b", "a", "k">>,
                   <<"b", "k", "p">>,
                   <<"o", "l", "d">>,
                   <<"a", "r", "c", "h", "i", "v", "e">>},
        tails |-> {<<"/">>},
        dotplus |-> TRUE, end |-> TRUE],
       \* (?i)/?(debug|dev|test|staging|sandbox|beta)(/|$)
       [pre |-> "opt",
        words |-> {<<"d", "e", "b", "u", "g">>,
                   <<"d", "e", "v">>,
                   <<"t", "e", "s", "t">>,
                   <<"s", "t", "a", "g", "i", "n", "g">>,
                   <<"s", "a", "n", "d", "b", "o", "x">>,
                   <<"b", "e", "t", "a">>},
        tails |-> {<<"/">>},
        dotplus |-> FALSE, end |-> TRUE],
       \* (?i)/?(database|db|sql|dump|mysql|mongo)(\..+|/|$)
       [pre |-> "opt",
        words |-> {<<"d", "a", "t", "a", "b", "a", "s", "e">>,
                   <<"d", "b">>,
                   <<"s", "q", "l">>,
                   <<"d", "u", "m", "p">>,
                   <<"m", "y", "s", "q", "l">>,
                   <<"m", "o", "n", "g", "o">>},
        tails |-> {<<"/">>},
        dotplus |-> TRUE, end |-> TRUE],
       \* (?i)/?.+\.(sql|sqlite|json|csv|zip|gz|bak|tar|7z|rar|bkp)$
       [pre |-> "any_dot",
        words |-> {<<"s", "q", "l">>,
                   <<"s", "q", "l", "i", "t", "e">>,
                   <<"j", "s", "o", "n">>,
                   <<"c", "s", "v">>,
                   <<"z", "i", "p">>,
                   <<"g", "z">>,
                   <<"b", "a", "k">>,
                   <<"t", "a", "r">>,
                   <<"7", "z">>,
                   <<"r", "a", "r">>,
                   <<"b", "k", "p">>},
        tails |-> {},
        dotplus |-> FALSE, end |-> TRUE],
       \* (?i)/?.+\.(bak|bkp|backup|old|tmp|temp)$
       [pre |-> "any_dot",
        words |-> {<<"b", "a", "k">>,
                   <<"b", "k", "p">>,
                   <<"b", "a", "c", "k", "u", "p">>,
                   <<"o", "l", "d">>,
                   <<"t", "m", "p">>,
                   <<"t", "e", "m", "p">>},
        tails |-> {},
        dotplus |-> FALSE, end |-> TRUE],
       \* (?i)/?(logs?|debug|trace|error)(\.txt|\.log|\.json|\.csv|/|$)
       [pre |-> "opt",
        words |-> {<<"l", "o", "g">>,
                   <<"l", "o", "g", "s">>,
                   <<"d", "e", "b", "u", "g">>,
                   <<"t", "r", "a", "c", "e">>,
                   <<"e", "r", "r", "o", "r">>},
        tails |-> {<<".", "t", "x", "t">>, <<".", "l", "o", "g">>, <<".", "j", "s", "o", "n">>, <<".", "c", "s", "v">>, <<"/">>},
        dotplus |-> FALSE, end |-> TRUE],
       \* (?i)/?(env|\.env|\.env\.local|\.env\.dev|\.env\.example|\.env\.backup)$
       [pre |-> "opt",
        words |-> {<<"e", "n", "v">>,
                   <<".", "e", "n", "v">>,
                   <<".", "e", "n", "v", ".", "l", "o", "c", "a", "l">>,
                   <<".", "e", "n", "v", ".", "d", "e", "v">>,
                   <<".", "e", "n", "v", ".", "e", "x", "a", "m", "p", "l", "e">>,
                   <<".", "e", "n", "v", ".", "b", "a", "c", "k", "u", "p">>},
        tails |-> {},
        dotplus |-> FALSE, end |-> TRUE],
       \* (?i)/?.+\.(pem|cert|crt|key|pfx|p12|cer|der|jks|keystore)$
       [pre |-> "any_dot",
        words |-> {<<"p", "e", "m">>,
                   <<"c", "e", "r", "t">>,
                   <<"c", "r", "t">>,
                   <<"k", "e", "y">>,
                   <<"p", "f", "x">>,
                   <<"p", "1", "2">>,
                   <<"c", "e", "r">>,
                   <<"d", "e", "r">>,
                   <<"j", "k", "s">>,
                   <<"k", "e", "y", "s", "t", "o", "r", "e">>},
        tails |-> {},
        dotplus |-> FALSE, end |-> TRUE],
       \* (?i)/?.+\.(c|cpp|java|py|rb|go|sh|pl|php|jsp|asp|lua|swift)$
       [pre |-> "any_dot",
        words |-> {<<"c">>,
                   <<"c", "p", "p">>,
                   <<"j", "a", "v", "a">>,
                   <<"p", "y">>,
                   <<"r", "b">>,
                   <<"g", "o">>,
                   <<"s", "h">>,
                   <<"p", "l">>,
                   <<"p", "h", "p">>,
                   <<"j", "s", "p">>,
                   <<"a", "s", "p">>,
                   <<"l", "u", "a">>,
                   <<"s", "w", "i", "f", "t">>},
        tails |-> {},
        dotplus |-> FALSE, end |-> TRUE],
       \* (?i)/?.+\.(sh|ps1|bat|cmd|cgi)$
       [pre |-> "any_dot",
        words |-> {<<"s", "h">>,
                   <<"p", "s", "1">>,
                   <<"b", "a", "t">>,
                   <<"c", "m", "d">>,
                   <<"c", "g", "i">>},
        tails |-> {},
        dotplus |-> FALSE, end |-> TRUE],
       \* (?i)/?(wp-content|wp-includes|joomla|drupal|cms|magento)(/|$)
       [pre |-> "opt",
        words |-> {<<"w", "p", "-", "c", "o", "n", "t", "e", "n", "t">>,
                   <<"w", "p", "-", "i", "n", "c", "l", "u", "d", "e", "s">>,
                   <<"j", "o", "o", "m", "l", "a">>,
                   <<"d", "r", "u", "p", "a", "l">>,
                   <<"c", "m", "s">>,
                   <<"m", "a", "g", "e", "n", "t", "o">>},
        tails |-> {<<"/">>},
        dotplus |-> FALSE, end |-> TRUE],
       \* (?i)/?(readme|license|changelog|todo|notes?|info)(\.md|\.txt|\.html|/|$)
       [pre |-> "opt",
        words |-> {<<"r", "e", "a", "d", "m", "e">>,
                   <<"l", "i", "c", "e", "n", "s", "e">>,
                   <<"c", "h", "a", "n", "g", "e", "l", "o", "g">>,
                   <<"t", "o", "d", "o">>,
                   <<"n", "o", "t", "e">>,
                   <<"n", "o", "t", "e", "s">>,
                   <<"i", "n", "f", "o">>},
        tails |-> {<<".", "m", "d">>, <<".", "t", "x", "t">>, <<".", "h", "t", "m", "l">>, <<"/">>},
        dotplus |-> FALSE, end |-> TRUE],
       \* (?i)/?(\.git|\.svn|\.hg|\.bzr|\.cvs|\.DS_Store|\.idea|\.vscode)(/|$)
       [pre |-> "opt",
        words |-> {<<".", "g", "i", "t">>,
                   <<".", "s", "v", "n">>,
                   <<".", "h", "g">>,
                   <<".", "b", "z", "r">>,
                   <<".", "c", "v", "s">>,
                   <<".", "D", "S", "_", "S", "t", "o", "r", "e">>,
                   <<".", "i", "d", "e", "a">>,
                   <<".", "v", "s", "c", "o", "d", "e">>},
        tails |-> {<<"/">>},
        dotplus |-> FALSE, end |-> TRUE],
       \* (?i)/?(robots\.txt|crossdomain\.xml|sitemap\.xml|phpinfo\.php|index\.php\?info)(/|$)
       [pre |-> "opt",
        words |-> {<<"r", "o", "b", "o", "t", "s", ".", "t", "x", "t">>,
                   <<"c", "r", "o", "s", "s", "d", "o", "m", "a", "i", "n", ".", "x", "m", "l">>,
                   <<"s", "i", "t", "e", "m", "a", "p", ".", "x", "m", "l">>,
                   <<"p", "h", "p", "i", "n", "f", "o", ".", "p", "h", "p">>,
                   <<"i", "n", "d", "e", "x", ".", "p", "h", "p", "?", "i", "n", "f", "o">>},
        tails |-> {<<"/">>},
        dotplus |-> FALSE, end |-> TRUE]
    >>

\* urllib.parse.uses_params
uses_params ==
    {<<>>,
     <<"f", "t", "p">>,
     <<"h", "d", "l">>,
     <<"p", "r", "o", "s", "p", "e", "r", "o">>,
     <<"h", "t", "t", "p">>,
     <<"i", "m", "a", "p">>,
     <<"h", "t", "t", "p", "s">>,
     <<"s", "h", "t", "t", "p">>,
     <<"r", "t", "s", "p">>,
     <<"r", "t", "s", "p", "s">>,
     <<"r", "t", "s", "p", "u">>,
     <<"s", "i", "p">>,
     <<"s", "i", "p", "s">>,
     <<"m", "m", "s">>,
     <<"s", "f", "t", "p">>,
     <<"t", "e", "l">>}

(***************************************************************************)
(* The sensitivity matcher.                                                *)
(***************************************************************************)
\* "$": the end of the string, or just before a newline that ends the string
AtEnd(s, j) == j = Len(s) + 1 \/ (j = Len(s) /\ s[j] = "\n")

\* What precedes the word at position i: nothing required for "/?", a "/" for "/",
\* and for "/?.+\." a "." with at least one character other than a newline before it.
PreOK(pre, s, i) ==
    CASE pre = "opt" -> TRUE
      [] pre = "slash" -> i >= 2 /\ s[i - 1] = "/"
      [] pre = "any_dot" -> i >= 3 /\ s[i - 1] = "." /\ s[i - 2] # "\n"

\* What follows the word, from position j on.
TailOK(rule, s, j) ==
    \/ rule.end /\ AtEnd(s, j)
    \/ \E t \in rule.tails : HasAt(s, j, Lower(t))
    \/ rule.dotplus /\ j + 1 <= Len(s) /\ s[j] = "." /\ s[j + 1] # "\n"

\* re.search(pattern, path) for one pattern of sensitive_path_patterns; (?i) is
\* matching on the lower-cased text.
Search(rule, path) ==
    LET s == Lower(path)
    IN  \E i \in 1..Len(s) : \E w \in rule.words :
            /\ HasAt(s, i, Lower(w))
            /\ PreOK(rule.pre, s, i)
            /\ TailOK(rule, s, i + Len(w))

\* is_sensitive_path(path)
is_sensitive_path(path) ==
    \E k \in 1..Len(sensitive_path_patterns) : Search(sensitive_path_patterns[k], path)

(***************************************************************************)
(* The categorizer.                                                        *)
(***************************************************************************)
\* is_file_path(path): '.' in path.split('/')[-1]
is_file_path(path) ==
    LET pieces == Split(path, "/") IN Contains(pieces[Len(pieces)], ".")

\* any(path.lower().endswith(ext) for ext in extensions)
MatchesEntry(path, entry) ==
    \E k \in 1..Len(entry.extensions) : EndsWith(Lower(path), entry.extensions[k])

\* categorize_file with a slip: the path is not lower-cased.
categorize_file_CaseSensitive(path) ==
    IF \E k \in 1..Len(extension_categories) :
           \E e \in Range(extension_categories[k].extensions) : EndsWith(path, e)
    THEN extension_categories[
             CHOOSE k \in 1..Len(extension_categories) :
                 /\ \E e \in Range(extension_categories[k].extensions) : EndsWith(path, e)
                 /\ \A j \in 1..(k - 1) :
                        ~\E e \in Range(extension_categories[j].extensions) : EndsWith(path, e)].category
    ELSE "others"

\* categorize_file(path): the first entry that matches, else 'others'
categorize_file(path) ==
    IF \E k \in 1..Len(extension_categories) : MatchesEntry(path, extension_categories[k])
    THEN extension_categories[
             CHOOSE k \in 1..Len(extension_categories) :
                 /\ MatchesEntry(path, extension_categories[k])
                 /\ \A j \in 1..(k - 1) : ~MatchesEntry(path, extension_categories[j])].category
    ELSE "others"

(***************************************************************************)
(* urllib.parse, as Recon.py uses it.  The characters "%", "[", "]", tab   *)
(* and carriage return are not in CharSet, so unquote, the IPv6 checks and *)
(* the removal of unsafe bytes have nothing to act on.                     *)
(***************************************************************************)
IsAlpha(c) == c \in Range(UpperLetters) \cup Range(LowerLetters)
scheme_chars == Range(UpperLetters) \cup Range(LowerLetters)
                \cup {"0", "1", "2", "3", "4", "5", "6", "7", "8", "9", "+", "-", "."}

\* The first index >= from of any character of cs in s, Len(s) + 1 when there is none.
FirstOf(s, cs, from) ==
    IF \E i \in from..Len(s) : s[i] \in cs
    THEN CHOOSE i \in from..Len(s) : s[i] \in cs /\ \A j \in from..(i - 1) : s[j] \notin cs
    ELSE Len(s) + 1

\* The last index of c in s, 0 when absent (str.rfind).
RFind(s, c) ==
    IF Contains(s, c) THEN CHOOSE i \in 1..Len(s) : s[i] = c /\ \A j \in (i + 1)..Len(s) : s[j] # c
    ELSE 0

\* urlsplit(url): scheme, netloc, then the fragment and the query are cut off
urlsplit(url) ==
    LET i == Find(url, ":")
        hasScheme == /\ i > 1
                     /\ IsAlpha(url[1])
                     /\ \A j \in 1..(i - 1) : url[j] \in scheme_chars
        scheme == IF hasScheme THEN Lower(UpTo(url, i - 1)) ELSE <<>>
        u1 == IF hasScheme THEN From(url, i + 1) ELSE url
        hasNetloc == HasAt(u1, 1, <<"/", "/">>)
        delim == FirstOf(u1, {"/", "?", "#"}, 3)
        netloc == IF hasNetloc THEN SubSeq(u1, 3, delim - 1) ELSE <<>>
        u2 == IF hasNetloc THEN From(u1, delim) ELSE u1
        u3 == IF Contains(u2, "#") THEN UpTo(u2, Find(u2, "#") - 1) ELSE u2
        query == IF Contains(u3, "?") THEN From(u3, Find(u3, "?") + 1) ELSE <<>>
        path == IF Contains(u3, "?") THEN UpTo(u3, Find(u3, "?") - 1) ELSE u3
    IN  [scheme |-> scheme, netloc |-> netloc, path |-> path, query |-> query]

\* _splitparams(url): the path without the parameters of its last segment
SplitParamsPath(p) ==
    LET i == IF Contains(p, "/") THEN FirstOf(p, {";"}, RFind(p, "/")) ELSE FirstOf(p, {";"}, 1)
    IN  IF i > Len(p) THEN p ELSE UpTo(p, i - 1)

\* urlparse(url)
urlparse(url) ==
    LET r == urlsplit(url)
    IN  IF r.scheme \in uses_params /\ Contains(r.path, ";")
        THEN [r EXCEPT !.path = SplitParamsPath(r.path)]
        ELSE r

\* str.replace('+', ' ')
PlusToSpace(s) == [i \in 1..Len(s) |-> IF s[i] = "+" THEN " " ELSE s[i]]

\* parse_qs(query).keys(): keep_blank_values is False, so a field without "=" or with
\* an empty value is dropped; an empty field is skipped; the separator is "&".
parse_qs_keys(query) ==
    LET fields == IF Len(query) = 0 THEN <<>> ELSE Split(query, "&")
        Eq(f) == Find(f, "=")
    IN  {PlusToSpace(UpTo(fields[k], Eq(fields[k]) - 1)) :
            k \in {n \in 1..Len(fields) :
                     /\ Len(fields[n]) > 0
                     /\ Eq(fields[n]) > 0
                     /\ Eq(fields[n]) < Len(fields[n])}}

(***************************************************************************)
(* extract_dirs_files_params: what one url contributes.                    *)
(***************************************************************************)
\* parts = path.strip("/").split("/")
PathParts(path) == Split(StripSlashes(path), "/")

\* dir_path = "/" + "/".join(parts[:i]) + "/"
dir_path(parts, i) == <<"/">> \o Join(SubSeq(parts, 1, i), <<"/">>) \o <<"/">>

\* The dir_path of every i in range(1, len(parts)), in order.
PrefixCandidates(path) ==
    LET parts == PathParts(path)
    IN  [i \in 1..(Len(parts) - 1) |-> dir_path(parts, i)]

\* dir_cleaned with a slip: the full path is rebuilt from parts like the prefixes.
dir_cleaned_Rejoined(path) == <<"/">> \o Join(PathParts(path), <<"/">>) \o <<"/">>

\* dir_cleaned = path if path.endswith("/") else path + "/"
dir_cleaned(path) == IF EndsWith(path, <<"/">>) THEN path ELSE path \o <<"/">>

\* The directory candidates handed to is_sensitive_path for one path, in order.
DirCandidates(path) ==
    PrefixCandidates(path) \o (IF is_file_path(path) THEN <<>> ELSE <<dir_cleaned(path)>>)

\* SensitivePrefixes with a slip: a prefix is kept only under a parent that was kept.
SensitivePrefixes_ParentGated(path) ==
    LET cands == PrefixCandidates(path)
    IN  {cands[i] : i \in {n \in 1..Len(cands) : \A j \in 1..n : is_sensitive_path(cands[j])}}

\* The prefixes the loop over range(1, len(parts)) adds to directories.
SensitivePrefixes(path) ==
    {c \in Range(PrefixCandidates(path)) : is_sensitive_path(c)}

\* What the file / directory branch adds to directories.
SensitiveFullDir(path) ==
    IF ~is_file_path(path) /\ is_sensitive_path(dir_cleaned(path)) THEN {dir_cleaned(path)} ELSE {}

\* What the file branch adds to files.
SensitiveFile(path) ==
    IF is_file_path(path) /\ is_sensitive_path(path) THEN {path} ELSE {}

\* categorized_files[category].add(path) on a defaultdict(set) kept in insertion order
AddCategorized(cf, category, path) ==
    IF \E k \in 1..Len(cf) : cf[k].category = category
    THEN [k \in 1..Len(cf) |->
             IF cf[k].category = category
             THEN [cf[k] EXCEPT !.paths = @ \cup {path}]
             ELSE cf[k]]
    ELSE Append(cf, [category |-> category, paths |-> {path}])

\* The CMS detection of one path.
CmsOf(path) ==
    (IF ContainsStr(path, <<"w", "p", "-", "a", "d", "m", "i", "n">>)
        \/ ContainsStr(path, <<"w", "p", "-", "c", "o", "n", "t", "e", "n", "t">>)
     THEN {"WordPress"} ELSE {})
    \cup
    (IF ContainsStr(path, <<"p", "u", "b", "l", "i", "c", "/", "i", "n", "d", "e", "x", ".", "p", "h", "p">>)
     THEN {"Laravel"} ELSE {})

\* The parameter names one query adds: parameters.update(parse_qs(query).keys())
ParamsOf(query) == IF Len(query) > 0 THEN parse_qs_keys(query) ELSE {}

\* "if not path or path == '/': continue"
Skipped(path) == Len(path) = 0 \/ path = <<"/">>

(***************************************************************************)
(* The persisted store and the input.                                      *)
(***************************************************************************)
Categories == {extension_categories[k].category : k \in 1..Len(extension_categories)} \cup {"others"}

\* filepath = f"output/{category}.txt"
CategoryPath(category) == "output/" \o category \o ".txt"

DirsPath == "output/dirs.txt"
FilesPath == "output/files.txt"
ParamsPath == "output/params.txt"

FileNames == {DirsPath, FilesPath, ParamsPath} \cup {CategoryPath(c) : c \in Categories}

EmptyStore == [n \in FileNames |-> NoFile]

\* The lines an input file may hold.
InputLines ==
    { \* http://x/wp-admin/login.php?redirect=1
      <<"h", "t", "t", "p", ":", "/", "/", "x", "/", "w", "p", "-", "a", "d", "m", "i", "n", "/",
        "l", "o", "g", "i", "n", ".", "p", "h", "p", "?", "r", "e", "d", "i", "r", "e", "c", "t", "=", "1">>,
      \* http://x/home/about-us/
      <<"h", "t", "t", "p", ":", "/", "/", "x", "/", "h", "o", "m", "e", "/",
        "a", "b", "o", "u", "t", "-", "u", "s", "/">>,
      \* http://y/backup.sql ?q=
      <<"h", "t", "t", "p", ":", "/", "/", "y", "/", "b", "a", "c", "k", "u", "p", ".", "s", "q", "l", " ", "?", "q", "=">>,
      \* admin/x
      <<"a", "d", "m", "i", "n", "/", "x">>,
      \* /pub/old/site.bak.txt
      <<"/", "p", "u", "b", "/", "o", "l", "d", "/", "s", "i", "t", "e", ".", "b", "a", "k", ".", "t", "x", "t">>,
      \* /a//Dump.SQL?+k=1&v&K=2
      <<"/", "a", "/", "/", "D", "u", "m", "p", ".", "S", "Q", "L", "?", "+", "k", "=", "1", "&", "v", "&", "K", "=", "2">>,
      \* http://x//logs//
      <<"h", "t", "t", "p", ":", "/", "/", "x", "/", "/", "l", "o", "g", "s", "/", "/">>,
      \* " /index.html " (surrounded by spaces)
      <<" ", "/", "i", "n", "d", "e", "x", ".", "h", "t", "m", "l", " ">>,
      \* /notes.md?x=1
      <<"/", "n", "o", "t", "e", "s", ".", "m", "d", "?", "x", "=", "1">>,
      \* http://x/
      <<"h", "t", "t", "p", ":", "/", "/", "x", "/">>,
      \* a line of one space
      <<" ">> }

RECURSIVE SeqsUpTo(_, _)
SeqsUpTo(S, n) ==
    IF n = 0 THEN {<<>>}
    ELSE SeqsUpTo(S, n - 1) \cup {Append(q, x) : q \in SeqsUpTo(S, n - 1), x \in S}

NoInput == [exists |-> FALSE, lines |-> <<>>]

\* Lines 95-130: what the body of the loop adds for one url; nothing but the domain
\* when the path is empty or "/".
Contribution(url) ==
    LET parsed == urlparse(Strip(url))
        path == parsed.path
    IN  IF Skipped(path)
        THEN [parsed |-> parsed, candidates |-> <<>>, dirs |-> {}, file |-> {},
              category |-> "others", cms |-> {}, params |-> {}]
        ELSE [parsed |-> parsed,
              candidates |-> DirCandidates(path),
              dirs |-> SensitivePrefixes(path) \cup SensitiveFullDir(path),
              file |-> SensitiveFile(path),
              category |-> categorize_file(path),
              cms |-> CmsOf(path),
              params |-> ParamsOf(parsed.query)]

\* The urls an input file of the model can yield.  The loop body is a function of the
\* url alone: Init tabulates Contribution over UrlSet once, in facts.
UrlSet == {Strip(l) : l \in InputLines} \ {<<>>}

\* urls = [line.strip() for line in f if line.strip()]
ReadUrls(lines) ==
    LET nonblank == SelectSeq(lines, LAMBDA l : Len(Strip(l)) > 0)
    IN  [i \in 1..Len(nonblank) |-> Strip(nonblank[i])]

(***************************************************************************)
(* run_passive_recon, one step per statement that touches the state.       *)
(***************************************************************************)
storeIdle == passed = {} /\ calls = 0 /\ hist = <<>>
writersIdle == wpc = <<>> /\ wItems = <<>> /\ wExisting = <<>> /\ wlog = <<>>

Init ==
    /\ facts = [u \in UrlSet |-> Contribution(u)]
    /\ input \in {NoInput} \cup {[exists |-> TRUE, lines |-> q] : q \in SeqsUpTo(InputLines, MaxUrls)}
    /\ pc = "start"
    /\ run = 1
    /\ urls = <<>>
    /\ idx = 1
    /\ directories = {}
    /\ files = {}
    /\ parameters = {}
    /\ domains = {}
    /\ categorized_files = <<>>
    /\ cms_hits = {}
    /\ saveIdx = 1
    /\ outDir = FALSE
    /\ fs = EmptyStore
    /\ submitted = <<>>
    /\ lastUrl = <<>>
    /\ fsAtStart = [fs |-> EmptyStore, outDir |-> FALSE]
    /\ fsAfterFirst = EmptyStore
    /\ storeIdle
    /\ writersIdle

aggVars == <<directories, files, parameters, domains, categorized_files, cms_hits>>
histVars == <<submitted, lastUrl, fsAtStart, fsAfterFirst>>
otherVars == <<storeVars, writerVars, facts>>

\* MissingInput with a slip: the output directory is made before the input is looked for.
MissingInput_MakesOutputDir ==
    /\ pc = "start"
    /\ ~input.exists
    /\ outDir' = TRUE
    /\ pc' = "aborted"
    /\ UNCHANGED <<input, run, urls, idx, aggVars, saveIdx, fs, histVars, otherVars>>

\* Lines 179-181: the input path does not exist; the message is shown and the run returns.
MissingInput ==
    /\ pc = "start"
    /\ ~input.exists
    /\ pc' = "aborted"
    /\ UNCHANGED <<input, run, urls, idx, aggVars, saveIdx, outDir, fs, histVars, otherVars>>

\* Lines 183-184 and 87-92: the input is read and the aggregator starts empty.
ReadInput ==
    /\ pc = "start"
    /\ input.exists
    /\ urls' = ReadUrls(input.lines)
    /\ idx' = 1
    /\ directories' = {}
    /\ files' = {}
    /\ parameters' = {}
    /\ domains' = {}
    /\ categorized_files' = <<>>
    /\ cms_hits' = {}
    /\ pc' = "aggregate"
    /\ UNCHANGED <<input, run, saveIdx, outDir, fs, histVars, otherVars>>

\* ProcessUrl with a slip: dirs.txt is brought up to date after every url.
ProcessUrl_WritesAsItGoes ==
    /\ pc = "aggregate"
    /\ idx <= Len(urls)
    /\ LET c == facts[urls[idx]]
       IN  /\ domains' = domains \cup {c.parsed.netloc}
           /\ lastUrl' = c.parsed
           /\ submitted' = c.candidates
           /\ directories' = directories \cup c.dirs
           /\ files' = files \cup c.file
           /\ categorized_files' =
                  IF c.file # {}
                  THEN AddCategorized(categorized_files, c.category, c.parsed.path)
                  ELSE categorized_files
           /\ cms_hits' = cms_hits \cup c.cms
           /\ parameters' = parameters \cup c.params
           /\ fs' = [fs EXCEPT ![DirsPath] = write_updated_list(@, directories \cup c.dirs)]
    /\ idx' = idx + 1
    /\ UNCHANGED <<input, pc, run, urls, saveIdx, outDir, fsAtStart, fsAfterFirst, otherVars>>

\* Lines 94-130: one iteration of the loop over urls.
ProcessUrl ==
    /\ pc = "aggregate"
    /\ idx <= Len(urls)
    /\ LET c == facts[urls[idx]]
       IN  /\ domains' = domains \cup {c.parsed.netloc}
           /\ lastUrl' = c.parsed
           /\ submitted' = c.candidates
           /\ directories' = directories \cup c.dirs
           /\ files' = files \cup c.file
           /\ categorized_files' =
                  IF c.file # {}
                  THEN AddCategorized(categorized_files, c.category, c.parsed.path)
                  ELSE categorized_files
           /\ cms_hits' = cms_hits \cup c.cms
           /\ parameters' = parameters \cup c.params
    /\ idx' = idx + 1
    /\ UNCHANGED <<input, pc, run, urls, saveIdx, outDir, fs, fsAtStart, fsAfterFirst, otherVars>>

\* Line 95: urlparse raises on a url (an unbalanced "[" in the host), or the run is
\* interrupted: the exception leaves run_passive_recon during the aggregation.
Fail ==
    /\ pc = "aggregate"
    /\ idx <= Len(urls)
    /\ pc' = "failed"
    /\ UNCHANGED <<input, run, urls, idx, aggVars, saveIdx, outDir, fs, histVars, otherVars>>

\* Line 132 and 186: the sets are returned as sorted lists.
Return ==
    /\ pc = "aggregate"
    /\ idx > Len(urls)
    /\ directories' = Sorted(directories)
    /\ files' = Sorted(files)
    /\ parameters' = Sorted(parameters)
    /\ domains' = Sorted(domains)
    /\ pc' = "makedirs"
    /\ UNCHANGED <<input, run, urls, idx, categorized_files, cms_hits, saveIdx, outDir, fs,
                   histVars, otherVars>>

\* Line 188: os.makedirs("output", exist_ok=True)
MakeDirs ==
    /\ pc = "makedirs"
    /\ outDir' = TRUE
    /\ pc' = "write_dirs"
    /\ UNCHANGED <<input, run, urls, idx, aggVars, saveIdx, fs, histVars, otherVars>>

\* Line 189: write_updated_list("output/dirs.txt", directories)
WriteDirs ==
    /\ pc = "write_dirs"
    /\ fs' = [fs EXCEPT ![DirsPath] = write_updated_list(@, Range(directories))]
    /\ pc' = "write_files"
    /\ UNCHANGED <<input, run, urls, idx, aggVars, saveIdx, outDir, histVars, otherVars>>

\* Line 190: write_updated_list("output/files.txt", files)
WriteFiles ==
    /\ pc = "write_files"
    /\ fs' = [fs EXCEPT ![FilesPath] = write_updated_list(@, Range(files))]
    /\ pc' = "write_params"
    /\ UNCHANGED <<input, run, urls, idx, aggVars, saveIdx, outDir, histVars, otherVars>>

\* Line 191: write_updated_list("output/params.txt", parameters)
WriteParams ==
    /\ pc = "write_params"
    /\ fs' = [fs EXCEPT ![ParamsPath] = write_updated_list(@, Range(parameters))]
    /\ pc' = "save"
    /\ saveIdx' = 1
    /\ UNCHANGED <<input, run, urls, idx, aggVars, outDir, histVars, otherVars>>

\* Lines 150-153: one iteration of save_all_wordlists over categorized_files.items()
SaveCategory ==
    /\ pc = "save"
    /\ saveIdx <= Len(categorized_files)
    /\ fs' = [fs EXCEPT ![CategoryPath(categorized_files[saveIdx].category)] =
                  write_updated_list(@, categorized_files[saveIdx].paths)]
    /\ saveIdx' = saveIdx + 1
    /\ UNCHANGED <<input, pc, run, urls, idx, aggVars, outDir, histVars, otherVars>>

\* Lines 194-196: the summary is shown and the run returns.
Finish ==
    /\ pc = "save"
    /\ saveIdx > Len(categorized_files)
    /\ pc' = "done"
    /\ fsAfterFirst' = IF run = 1 THEN fs ELSE fsAfterFirst
    /\ UNCHANGED <<input, run, urls, idx, aggVars, saveIdx, outDir, fs, submitted, lastUrl,
                   fsAtStart, otherVars>>

\* Lines 199-201: the script is started again on the same input path.
Rerun ==
    /\ pc = "done"
    /\ run = 1
    /\ run' = run + 1
    /\ pc' = "start"
    /\ fsAtStart' = [fs |-> fs, outDir |-> outDir]
    /\ UNCHANGED <<input, urls, idx, aggVars, saveIdx, outDir, fs, submitted, lastUrl,
                   fsAfterFirst, otherVars>>

\* Between two runs the input file is removed.
RemoveInput ==
    /\ pc = "done"
    /\ run = 1
    /\ input.exists
    /\ input' = NoInput
    /\ UNCHANGED <<pc, run, urls, idx, aggVars, saveIdx, outDir, fs, histVars, otherVars>>

Next ==
    \/ MissingInput
    \/ ReadInput
    \/ ProcessUrl
    \/ Fail
    \/ Return
    \/ MakeDirs
    \/ WriteDirs
    \/ WriteFiles
    \/ WriteParams
    \/ SaveCategory
    \/ Finish
    \/ Rerun
    \/ RemoveInput

Spec == Init /\ [][Next]_vars

(***************************************************************************)
(* write_updated_list called repeatedly on one wordlist file.              *)
(***************************************************************************)
\* The items the calls of the model pass: "a", " a", "b " and the empty string.
ItemUniverse == {<<"a">>, <<" ", "a">>, <<"b", " ">>, <<>>}

\* The wordlist file before the first call: absent, or left by an earlier writer.
StartFiles == {NoFile, FileOf(<<"z", "\n", "a">>)}

runIdle ==
    /\ input = NoInput
    /\ pc = "idle"
    /\ run = 1
    /\ urls = <<>>
    /\ idx = 1
    /\ directories = {}
    /\ files = {}
    /\ parameters = {}
    /\ domains = {}
    /\ categorized_files = <<>>
    /\ cms_hits = {}
    /\ saveIdx = 1
    /\ outDir = TRUE
    /\ submitted = <<>>
    /\ lastUrl = <<>>
    /\ fsAtStart = [fs |-> EmptyStore, outDir |-> FALSE]
    /\ fsAfterFirst = EmptyStore
    /\ facts = <<>>

InitStore ==
    /\ runIdle
    /\ writersIdle
    /\ \E f \in StartFiles :
          /\ fs = [EmptyStore EXCEPT ![DirsPath] = f]
          /\ hist = [start |-> f, items |-> {}, before |-> f, repeat |-> FALSE]
    /\ passed = {}
    /\ calls = 0

\* Lines 142-146: one call write_updated_list("output/dirs.txt", new_items)
StoreWrite ==
    /\ calls < MaxCalls
    /\ \E new_items \in SUBSET ItemUniverse :
          /\ fs' = [fs EXCEPT ![DirsPath] = write_updated_list(@, new_items)]
          /\ passed' = passed \cup new_items
          /\ hist' = [start |-> hist.start,
                      items |-> new_items,
                      before |-> fs[DirsPath],
                      repeat |-> calls > 0 /\ hist.items = new_items]
    /\ calls' = calls + 1
    /\ UNCHANGED <<runVars, writerVars, facts>>

NextStore == StoreWrite

SpecStore == InitStore /\ [][NextStore]_vars

(***************************************************************************)
(* Two invocations of write_updated_list on the same file, their steps     *)
(* interleaved as two processes' steps can be.                             *)
(***************************************************************************)
Writers == {1, 2}

InitWriters ==
    /\ runIdle
    /\ storeIdle
    /\ fs = EmptyStore
    /\ wpc = [w \in Writers |-> "ready"]
    /\ wItems \in [Writers -> (SUBSET ItemUniverse) \ {{}}]
    /\ wExisting = [w \in Writers |-> {}]
    /\ wlog = <<>>

\* Line 143: existing_items = read_existing_set(filepath)
WRead(w) ==
    /\ wpc[w] = "ready"
    /\ wExisting' = [wExisting EXCEPT ![w] = read_existing_set(fs[DirsPath])]
    /\ wpc' = [wpc EXCEPT ![w] = "read"]
    /\ wlog' = Append(wlog, w)
    /\ UNCHANGED <<runVars, fs, storeVars, wItems, facts>>

\* Line 145: open(filepath, "w") creates or truncates the file
WOpen(w) ==
    /\ wpc[w] = "read"
    /\ fs' = [fs EXCEPT ![DirsPath] = FileOf(<<>>)]
    /\ wpc' = [wpc EXCEPT ![w] = "opened"]
    /\ wlog' = Append(wlog, w)
    /\ UNCHANGED <<runVars, storeVars, wItems, wExisting, facts>>

\* Line 146: f.write("\n".join(combined)), flushed when the with block closes the file
WWrite(w) ==
    /\ wpc[w] = "opened"
    /\ fs' = [fs EXCEPT ![DirsPath] = WriteCombined(wExisting[w], wItems[w])]
    /\ wpc' = [wpc EXCEPT ![w] = "done"]
    /\ wlog' = Append(wlog, w)
    /\ UNCHANGED <<runVars, storeVars, wItems, wExisting, facts>>

NextWriters == \E w \in Writers : WRead(w) \/ WOpen(w) \/ WWrite(w)

SpecWriters == InitWriters /\ [][NextWriters]_vars

(***************************************************************************)
(* Properties of the wordlist store.                                       *)
(***************************************************************************)
\* The file holding exactly the items of S, one per line, ascending, none twice.
HoldsExactly(file, S) == file.exists /\ file.data = Join(Sorted(S), <<"\n">>)

\* C1: after any sequence of write_updated_list calls on a file that was absent at the
\* start, the file's lines are exactly the union of all items passed, each once, in
\* ascending order, whatever the items are (leading or trailing whitespace and the empty
\* string included).
C1_FileIsUnionOfPassedItems ==
    (calls > 0 /\ ~hist.start.exists) => HoldsExactly(fs[DirsPath], passed)

\* C2: a call of write_updated_list that repeats the new_items of the call before it
\* leaves the file as that call left it.
C2_RepeatedCallChangesNothing ==
    hist.repeat => fs[DirsPath] = hist.before

(***************************************************************************)
(* Properties of two interleaved writers.                                  *)
(***************************************************************************)
BothDone == \A w \in Writers : wpc[w] = "done"

\* The two invocations ran strictly one after the other.
Serial == wlog \in {<<1, 1, 1, 2, 2, 2>>, <<2, 2, 2, 1, 1, 1>>}

\* The lines of text of the file.
TextLines(file) == Range(Split(file.data, "\n"))

\* C10: when the two invocations of write_updated_list run strictly one after the other,
\* no item passed to the earlier one is absent from the file at the end (the lost update
\* needs both reads to come before either write).
C10_SerialWritersKeepEarlierItems ==
    (BothDone /\ Serial) => wItems[wlog[1]] \subseteq TextLines(fs[DirsPath])

\* The lost update: both writers read before either wrote, and at the end an item of the
\* writer that wrote first, one that survives a read unchanged, is not in the file.
C10_LostUpdateReached ==
    /\ BothDone
    /\ SubSeq(wlog, 1, 2) \in {<<1, 2>>, <<2, 1>>}
    /\ \E w \in Writers :
          /\ wlog[Len(wlog)] # w
          /\ <<"a">> \in wItems[w]
          /\ <<"a">> \notin TextLines(fs[DirsPath])

(***************************************************************************)
(* Properties of run_passive_recon and extract_dirs_files_params.          *)
(***************************************************************************)
\* The paths of the corpus that the loop does not skip.
CorpusPaths ==
    {urlparse(Strip(urls[i])).path : i \in 1..Len(urls)} \ {<<>>, <<"/">>}

\* C3: a second run on the unchanged input leaves every output file as the first run
\* left it, and creates no file.
C3_SecondRunChangesNothing ==
    (pc = "done" /\ run = 2) => fs = fsAfterFirst

\* C4: the returned directories are exactly the directory candidates that
\* is_sensitive_path accepts, and the returned files exactly the file paths it accepts:
\* each candidate is judged alone.
C4_SensitivityGating ==
    pc = "makedirs" =>
        /\ Range(directories) =
               {c \in UNION {Range(PrefixCandidates(p)) : p \in CorpusPaths}
                      \cup {dir_cleaned(p) : p \in {q \in CorpusPaths : ~is_file_path(q)}} :
                    is_sensitive_path(c)}
        /\ Range(files) = {p \in CorpusPaths : is_file_path(p) /\ is_sensitive_path(p)}

\* A directory is returned although its parent prefix, a candidate too, is not, next to
\* a returned file.
C4_Witness ==
    /\ pc = "makedirs"
    /\ <<"/", "p", "u", "b", "/", "o", "l", "d", "/">> \in Range(directories)
    /\ <<"/", "p", "u", "b", "/">> \notin Range(directories)
    /\ Len(files) > 0

\* C5: when the input path does not exist the run ends with the output directory and
\* every wordlist file as they were when it started.
C5_MissingInputWritesNothing ==
    pc = "aborted" => (fs = fsAtStart.fs /\ outDir = fsAtStart.outDir)

\* A run that found no input file next to wordlists an earlier run wrote.
C5_Witness ==
    /\ pc = "aborted"
    /\ run = 2
    /\ fs[DirsPath].exists
    /\ Len(fs[DirsPath].data) > 0

\* "/" + the segments joined by "/" + "/"
Wrapped(segs) == <<"/">> \o Join(segs, <<"/">>) \o <<"/">>

\* The segments are all non-empty and there is at least one.
NonEmptySegments(segs) == Len(segs) >= 1 /\ \A i \in 1..Len(segs) : Len(segs[i]) > 0

\* A directory path: no "." in the final segment, or the path ends with "/".
IsDirectoryPath(path, segs) == ~Contains(segs[Len(segs)], ".") \/ path[Len(path)] = "/"

\* The path with "/" appended unless it ends with one.
WithTrailingSlash(path) == IF path[Len(path)] = "/" THEN path ELSE Append(path, "/")

\* The path starts with exactly one "/" and ends with at most one.
PlainlySlashed(path) ==
    /\ path[1] = "/"
    /\ Len(path) >= 2 => path[2] # "/"
    /\ Len(path) >= 2 => ~(path[Len(path)] = "/" /\ path[Len(path) - 1] = "/")

\* The url processed last was not skipped.
LastProcessed == pc = "aggregate" /\ idx > 1 /\ ~Skipped(lastUrl.path)

\* C6 as stated: the candidates of a path with N non-empty segments are the N-1
\* wrapped prefixes and, for a directory path, the wrapped full path: every candidate
\* has the wrapped form.
C6_EveryCandidateWrapped ==
    LastProcessed =>
        LET path == lastUrl.path
            segs == Split(StripSlashes(path), "/")
            N == Len(segs)
        IN  NonEmptySegments(segs) =>
                submitted = [i \in 1..(N - 1) |-> Wrapped(SubSeq(segs, 1, i))]
                            \o (IF IsDirectoryPath(path, segs) THEN <<Wrapped(segs)>> ELSE <<>>)

\* C6 as amended: N-1 wrapped prefixes for a file path; for a directory path those and,
\* as the N-th candidate, the path itself with "/" appended unless it ends with one,
\* which is the wrapped full path when the path starts with exactly one "/" and ends
\* with at most one.
C6_CandidateArithmetic ==
    LastProcessed =>
        LET path == lastUrl.path
            segs == Split(StripSlashes(path), "/")
            N == Len(segs)
        IN  NonEmptySegments(segs) =>
                /\ submitted = [i \in 1..(N - 1) |-> Wrapped(SubSeq(segs, 1, i))]
                               \o (IF IsDirectoryPath(path, segs)
                                   THEN <<WithTrailingSlash(path)>> ELSE <<>>)
                /\ Len(submitted) = (IF IsDirectoryPath(path, segs) THEN N ELSE N - 1)
                /\ (IsDirectoryPath(path, segs) /\ PlainlySlashed(path))
                       => submitted[N] = Wrapped(segs)

\* A relative directory path of two segments: its second candidate is the path with
\* "/" appended, which has no leading "/".
C6_Witness ==
    /\ LastProcessed
    /\ lastUrl.path = <<"a", "d", "m", "i", "n", "/", "x">>
    /\ Len(submitted) = 2
    /\ submitted[2] = <<"a", "d", "m", "i", "n", "/", "x", "/">>

\* The names of the fields "name=value" of a query, whatever the value ("+" read as a
\* space, as parse_qs reads it).
QueryKeyNames(query) ==
    LET fields == Split(query, "&")
    IN  {PlusToSpace(SubSeq(fields[k], 1, Find(fields[k], "=") - 1)) :
            k \in {n \in 1..Len(fields) : Contains(fields[n], "=")}}

\* The (path, query) pairs of the urls the loop does not skip.
CorpusQueries ==
    {urlparse(Strip(urls[i])).query :
        i \in {n \in 1..Len(urls) : ~Skipped(urlparse(Strip(urls[n])).path)}}

\* C7: every key of the query string of every url that is not skipped is returned as a
\* parameter, whatever its value (an empty one included), and nothing but keys is.
C7_EveryQueryKeyReturned ==
    pc = "makedirs" =>
        Range(parameters) = UNION {QueryKeyNames(q) : q \in CorpusQueries}

\* The first entry of extension_categories, in declaration order, one of whose suffixes
\* ends the lower-cased path; "others" when there is none.
FirstMatchingCategory(path) ==
    LET low == Lower(path)
        hit(k) == \E e \in Range(extension_categories[k].extensions) :
                      /\ Len(e) <= Len(low)
                      /\ SubSeq(low, Len(low) - Len(e) + 1, Len(low)) = e
        hits == {k \in 1..Len(extension_categories) : hit(k)}
    IN  IF hits = {} THEN "others"
        ELSE extension_categories[CHOOSE k \in hits : \A j \in hits : k <= j].category

\* C8: the category sets are non-empty, pairwise disjoint, their union is the returned
\* file set, each path is under its first matching category (or "others"), and a
\* <category>.txt exists after the first run only for a category that holds a path.
C8_OneCategoryPerFile ==
    /\ pc = "makedirs" =>
          /\ \A k \in 1..Len(categorized_files) :
                /\ categorized_files[k].paths # {}
                /\ \A p \in categorized_files[k].paths :
                      categorized_files[k].category = FirstMatchingCategory(p)
                /\ \A j \in 1..Len(categorized_files) :
                      j # k => /\ categorized_files[j].category # categorized_files[k].category
                               /\ categorized_files[j].paths \cap categorized_files[k].paths = {}
          /\ UNION {categorized_files[k].paths : k \in 1..Len(categorized_files)} = Range(files)
    /\ (pc = "done" /\ run = 1) =>
          {c \in Categories : fs[CategoryPath(c)].exists}
              = {categorized_files[k].category : k \in 1..Len(categorized_files)}

\* Two categories hold a file each: "sql" through an upper-case suffix, and "others".
C8_Witness ==
    /\ pc = "makedirs"
    /\ Len(categorized_files) = 2
    /\ \E k \in 1..2 : /\ categorized_files[k].category = "sql"
                       /\ <<"/", "a", "/", "/", "D", "u", "m", "p", ".", "S", "Q", "L">>
                              \in categorized_files[k].paths
    /\ \E k \in 1..2 : categorized_files[k].category = "others"

\* C9: until every url has been aggregated, and when the aggregation fails at a url,
\* every wordlist file and the output directory are as they were when the run started.
C9_NoWriteBeforeAggregationEnds ==
    /\ pc \in {"start", "aggregate", "failed"} =>
          (fs = fsAtStart.fs /\ outDir = fsAtStart.outDir)
    /\ fs # fsAtStart.fs => idx > Len(urls)

\* A second run fails at its second url, over the wordlists the first run wrote.
C9_Witness ==
    /\ pc = "failed"
    /\ run = 2
    /\ idx = 2
    /\ fs[FilesPath].exists
    /\ Len(fs[FilesPath].data) > 0

=============================================================================
